---------------------------- MODULE Spec2Model ----------------------------
(***************************************************************************)
(* Boyer-Moore substring search of task1/boyermoore.py: the character map, *)
(* the pattern map, the Bad-Character tables, the two shift rules and the  *)
(* scan loop of BoyerMoore.boyer_moore.                                     *)
(*                                                                         *)
(* Python strings and lists are TLA+ sequences.  The source indexes from   *)
(* 0; the model keeps the source's indices and reads through At / Slice.   *)
(***************************************************************************)
EXTENDS Integers, Sequences, FiniteSets, TLC

VARIABLES sequence, patterns, c_map, pat_map, preprocessing,
          k, t, bcr_count, match_count, positions, data, pc

vars == <<sequence, patterns, c_map, pat_map, preprocessing,
          k, t, bcr_count, match_count, positions, data, pc>>

objvars == <<sequence, patterns, c_map, pat_map, preprocessing>>

---------------------------------------------------------------------------
(* Bounds of the model *)

Alphabet == {"A", "B"}

\* general scans: one pattern, every subject and pattern up to these lengths
MaxT == 7
MaxP == 6

\* pattern lists of two entries (duplicates included)
MaxTDup == 4
MaxPDup == 3

\* subjects that end with the pattern: up to SkipPre characters, then the
\* pattern
SkipP == 7
SkipPre == 2

\* subjects that hold a pattern of DeepP characters: up to DeepPre
\* characters, the pattern, up to DeepPost characters
DeepP == 7
DeepPre == 2
DeepPost == 5

\* subjects made of three runs, long enough to hold more than ten matches
MaxRun == 12
MaxPCap == 2

\* liveness
MaxTLive == 5
MaxPLive == 4

---------------------------------------------------------------------------
(* Python sequence primitives *)

Max(a, b) == IF a >= b THEN a ELSE b
Min(a, b) == IF a <= b THEN a ELSE b

\* s[i], 0 <= i < len(s)
At(s, i) == s[i + 1]

\* s[a:b] for 0 <= a, clamped at len(s) as Python slices are
Slice(s, a, b) == SubSeq(s, a + 1, Min(b, Len(s)))

\* set(s)
CharsOf(s) == {s[i] : i \in 1..Len(s)}

SetMax(S) == CHOOSE x \in S : \A y \in S : y <= x

---------------------------------------------------------------------------
(* Construction: BoyerMoore.__init__ *)

\* the pattern -> index dict; a later duplicate overwrites an earlier one
PatternsMap(pats) ==
    [q \in {pats[i] : i \in 1..Len(pats)} |->
        SetMax({i \in 0..(Len(pats) - 1) : At(pats, i) = q})]

\* the character -> row dicts that enumerate(set) can produce: the
\* iteration order of a set of str is not fixed, so every bijection onto
\* 0..n-1 is possible
CharacterMaps(seq, pats) ==
    LET unique_seq == CharsOf(seq) \cup UNION {CharsOf(pats[i]) : i \in 1..Len(pats)}
        n == Cardinality(unique_seq)
    IN  {f \in [unique_seq -> 0..(n - 1)] :
            \A a, b \in unique_seq : a # b => f[a] # f[b]}

\* fill_value of np.full
NoOccurrence == -1

\* the loop "for i in range(len(pat))" of one character c, from i on, on the
\* row of c: at every i with pat[i] == c the cells j = i+1 .. len(pat)-1 are
\* overwritten with i
RECURSIVE RowFill_WriteFromI(_, _, _, _)
RowFill_WriteFromI(pat, c, i, row) ==
    IF i >= Len(pat) THEN row
    ELSE RowFill_WriteFromI(pat, c, i + 1,
            IF At(pat, i) = c
            THEN [j \in 1..Len(pat) |-> IF j - 1 >= i THEN i ELSE row[j]]
            ELSE row)

RECURSIVE RowFill(_, _, _, _)
RowFill(pat, c, i, row) ==
    IF i >= Len(pat) THEN row
    ELSE RowFill(pat, c, i + 1,
            IF At(pat, i) = c
            THEN [j \in 1..Len(pat) |-> IF j - 1 >= i + 1 THEN i ELSE row[j]]
            ELSE row)

\* the table of one pattern: rows by c_map, columns by pattern index
Table(pat, cm) ==
    [r \in 1..Cardinality(DOMAIN cm) |->
        RowFill(pat, CHOOSE c \in DOMAIN cm : cm[c] = r - 1, 0,
                [j \in 1..Len(pat) |-> NoOccurrence])]

Preprocessing(pats, cm) == [i \in 1..Len(pats) |-> Table(pats[i], cm)]

\* arr[r][j]
Cell(arr, r, j) == arr[r + 1][j + 1]

---------------------------------------------------------------------------
(* The scan of one pattern *)

\* p after a read of T[t + p] outside T (IndexError)
IndexError == -2

MaxPositions == 10

LoopCond_IgnoresPatternLength(tt, T, P) == tt <= Len(T) - 1

\* while t <= len(T) - len(P)
LoopCond(tt, T, P) == tt <= Len(T) - Len(P)

\* the inner loop "while match and p >= 0": the value of p when it ends,
\* -1 after a full match, else the index of the mismatch
RECURSIVE CompareFrom(_, _, _, _)
CompareFrom(T, P, tt, p) ==
    IF p < 0 THEN p
    ELSE IF tt + p >= Len(T) THEN IndexError
    ELSE IF At(T, tt + p) = At(P, p) THEN CompareFrom(T, P, tt, p - 1)
    ELSE p

Compare(T, P, tt) == CompareFrom(T, P, tt, Len(P) - 1)

BCR_NoneCaseShiftsP(tt, p, P_idx) ==
    LET x == At(sequence, tt + p)
        prep == At(preprocessing, P_idx)
        shift == Cell(prep, c_map[x], p)
    IN  IF shift = NoOccurrence THEN p ELSE p - shift

BCR_IgnoresTable(tt, p, P_idx) == p + 1

BCR(tt, p, P_idx) ==
    LET x == At(sequence, tt + p)
        prep == At(preprocessing, P_idx)
        shift == Cell(prep, c_map[x], p)
    IN  IF shift = NoOccurrence THEN p + 1 ELSE p - shift

\* the list positions of GSR, as the set of its entries; the entries are
\* appended for increasing i, so positions[-1] is the greatest
GSRPositions(tt, p, P_idx) ==
    LET P == At(patterns, P_idx)
        suffix == Slice(sequence, tt, tt + p + 1)
        suf_len == Len(suffix)
    IN  {i \in 0..(Len(P) - suf_len - 1) :
            Slice(P, i, i + suf_len) = suffix /\ i < p}

GSR(tt, p, P_idx) ==
    LET found == GSRPositions(tt, p, P_idx)
    IN  IF found = {} THEN 1 ELSE p - SetMax(found)

\* if p < len(P) / 2, a comparison of reals
InLeftHalf(p, P) == 2 * p < Len(P)

RecordPosition_OffByOne(pos, count, tt) ==
    IF count <= MaxPositions THEN Append(pos, tt) ELSE pos

\* if match_count < 10: positions.append(t)
RecordPosition(pos, count, tt) ==
    IF count < MaxPositions THEN Append(pos, tt) ELSE pos

\* the pattern of the current iteration of "for P in self.patterns"
CurP == At(patterns, k)

\* p when the inner loop of the current iteration ends
CurCompare == Compare(sequence, CurP, t)

Scanning == pc = "scan" /\ LoopCond(t, sequence, CurP)

Mismatch == Scanning /\ CurCompare >= 0

---------------------------------------------------------------------------
(* Initial states *)

Strings(lo, hi) == UNION {[1..n -> Alphabet] : n \in lo..hi}

\* a run of A, a run of B, a run of A
Runs(n) ==
    {[i \in 1..(a + b + c) |-> IF i <= a \/ i > a + b THEN "A" ELSE "B"] :
        a \in 0..n, b \in 0..n, c \in 0..n}

InitWith(T, pats) ==
    /\ sequence = T
    /\ patterns = pats
    /\ c_map \in CharacterMaps(T, pats)
    /\ pat_map = PatternsMap(pats)
    /\ preprocessing = Preprocessing(pats, c_map)
    /\ k = 0
    /\ t = 0
    /\ bcr_count = 0
    /\ match_count = 0
    /\ positions = <<>>
    /\ data = <<>>
    /\ pc = "scan"

Init ==
    \E T \in Strings(0, MaxT), P \in Strings(1, MaxP) : InitWith(T, <<P>>)

InitDup ==
    \E T \in Strings(0, MaxTDup), P \in Strings(1, MaxPDup),
       Q \in Strings(1, MaxPDup) : InitWith(T, <<P, Q>>)

InitSkip ==
    \E P \in Strings(1, SkipP), pre \in Strings(0, SkipPre) :
        InitWith(pre \o P, <<P>>)

InitDeep ==
    \E P \in Strings(DeepP, DeepP), pre \in Strings(0, DeepPre),
       post \in Strings(0, DeepPost) : InitWith(pre \o P \o post, <<P>>)

InitCap ==
    \E T \in {r \in Runs(MaxRun) : Len(r) <= MaxRun},
       P \in Strings(1, MaxPCap) : InitWith(T, <<P>>)

InitLive ==
    \E T \in Strings(0, MaxTLive), P \in Strings(1, MaxPLive) :
        InitWith(T, <<P>>)

---------------------------------------------------------------------------
(* Actions: one iteration of the while loop, or the end of a for iteration *)

\* if match: ...
MatchStep ==
    /\ Scanning
    /\ CurCompare = -1
    /\ positions' = RecordPosition(positions, match_count, t)
    /\ match_count' = match_count + 1
    /\ t' = t + 1
    /\ UNCHANGED <<objvars, k, bcr_count, data, pc>>

\* else: s1 = BCR(...); if p < len(P) / 2: ...
MismatchLeftStep ==
    /\ Mismatch
    /\ InLeftHalf(CurCompare, CurP)
    /\ LET s1 == BCR(t, CurCompare, pat_map[CurP])
       IN  /\ bcr_count' = bcr_count + 1
           /\ t' = t + s1
    /\ UNCHANGED <<objvars, k, match_count, positions, data, pc>>

\* else: s1 = BCR(...); else: s2 = GSR(...) ...
MismatchRightStep ==
    /\ Mismatch
    /\ ~InLeftHalf(CurCompare, CurP)
    /\ LET s1 == BCR(t, CurCompare, pat_map[CurP])
           s2 == GSR(t, CurCompare, pat_map[CurP])
       IN  /\ bcr_count' = IF s1 >= s2 THEN bcr_count + 1 ELSE bcr_count
           /\ t' = t + Max(s1, s2)
    /\ UNCHANGED <<objvars, k, match_count, positions, data, pc>>

AppendReport_KeepsCounter ==
    /\ pc = "scan"
    /\ ~LoopCond(t, sequence, CurP)
    /\ data' = Append(data, <<bcr_count, match_count>> \o positions)
    /\ IF k + 1 < Len(patterns)
       THEN /\ k' = k + 1
            /\ t' = 0
            /\ match_count' = 0
            /\ positions' = <<>>
            /\ UNCHANGED <<bcr_count, pc>>
       ELSE /\ pc' = "done"
            /\ UNCHANGED <<k, t, bcr_count, match_count, positions>>
    /\ UNCHANGED objvars

\* the while loop ends: data.append(...), then the next pattern with fresh
\* counters, or return data
AppendReport ==
    /\ pc = "scan"
    /\ ~LoopCond(t, sequence, CurP)
    /\ data' = Append(data, <<bcr_count, match_count>> \o positions)
    /\ IF k + 1 < Len(patterns)
       THEN /\ k' = k + 1
            /\ t' = 0
            /\ bcr_count' = 0
            /\ match_count' = 0
            /\ positions' = <<>>
            /\ UNCHANGED pc
       ELSE /\ pc' = "done"
            /\ UNCHANGED <<k, t, bcr_count, match_count, positions>>
    /\ UNCHANGED objvars

Next ==
    \/ MatchStep
    \/ MismatchLeftStep
    \/ MismatchRightStep
    \/ AppendReport

Spec == Init /\ [][Next]_vars

SpecDup == InitDup /\ [][Next]_vars

SpecSkip == InitSkip /\ [][Next]_vars

SpecDeep == InitDeep /\ [][Next]_vars

SpecCap == InitCap /\ [][Next]_vars

\* the scan is a sequential loop: a step that can be taken is taken
FairSpec == InitLive /\ [][Next]_vars /\ WF_vars(Next)

---------------------------------------------------------------------------
(* Reference definitions used by the properties *)

\* T[i : i+len(P)] == P
Occurs(T, P, i) == i >= 0 /\ i + Len(P) <= Len(T) /\ Slice(T, i, i + Len(P)) = P

\* the offsets a brute-force scan finds
Occurrences(T, P) == {i \in 0..(Len(T) - Len(P)) : Occurs(T, P, i)}

RECURSIVE Ascending(_)
Ascending(S) ==
    IF S = {} THEN <<>>
    ELSE LET m == CHOOSE x \in S : \A y \in S : x <= y
         IN  <<m>> \o Ascending(S \ {m})

FirstOccurrences(T, P, n) ==
    LET all == Ascending(Occurrences(T, P))
    IN  SubSeq(all, 1, Min(n, Len(all)))

ReportBcr(r) == r[1]
ReportCount(r) == r[2]
ReportPositions(r) == SubSeq(r, 3, Len(r))

\* the greatest index i < j with pat[i] == c, or the sentinel
GreatestBefore(pat, c, j) ==
    LET S == {i \in 0..(j - 1) : At(pat, i) = c}
    IN  IF S = {} THEN -1 ELSE SetMax(S)

\* the index of the first mismatch of a right-to-left comparison, or -1
RefMismatch(T, P, tt) ==
    LET S == {q \in 0..(Len(P) - 1) : At(T, tt + q) # At(P, q)}
    IN  IF S = {} THEN -1 ELSE SetMax(S)

RefBCR(T, P, tt, p) ==
    LET i == GreatestBefore(P, At(T, tt + p), p)
    IN  IF i = -1 THEN p + 1 ELSE p - i

\* the Good-Suffix shift as the specification words it: the largest offset
\* i < p with P[i : i+len(suffix)] == suffix
RefGSR(T, P, tt, p) ==
    LET suffix == Slice(T, tt, tt + p + 1)
        S == {i \in 0..(p - 1) : Slice(P, i, i + Len(suffix)) = suffix}
    IN  IF S = {} THEN 1 ELSE p - SetMax(S)

\* the number of mismatch events with p < len(P)/2 or s1 >= s2 of a scan
\* that shifts by RefBCR and RefGSR, from cursor tt on
RECURSIVE RefBcrWins(_, _, _)
RefBcrWins(T, P, tt) ==
    IF tt > Len(T) - Len(P) THEN 0
    ELSE LET p == RefMismatch(T, P, tt)
         IN  IF p = -1 THEN RefBcrWins(T, P, tt + 1)
             ELSE LET s1 == RefBCR(T, P, tt, p)
                  IN  IF 2 * p < Len(P) THEN 1 + RefBcrWins(T, P, tt + s1)
                      ELSE LET s2 == RefGSR(T, P, tt, p)
                           IN  (IF s1 >= s2 THEN 1 ELSE 0)
                                 + RefBcrWins(T, P, tt + Max(s1, s2))

\* the shifts of the current mismatch
CurS1 == BCR(t, CurCompare, pat_map[CurP])
CurS2 == GSR(t, CurCompare, pat_map[CurP])

---------------------------------------------------------------------------
(* C1: the match count reported for a pattern equals the number of offsets *)
(* at which a brute-force scan finds the pattern in the subject.           *)
C1_MatchCountIsBruteForce ==
    \A i \in 1..Len(data) :
        ReportCount(data[i]) = Cardinality(Occurrences(sequence, patterns[i]))

(* C2: the reported positions are exactly the first min(match_count, 10)   *)
(* brute-force offsets of the pattern, in increasing order.                *)
C2_PositionsAreFirstOccurrences ==
    \A i \in 1..Len(data) :
        ReportPositions(data[i]) =
            FirstOccurrences(sequence, patterns[i],
                             Min(ReportCount(data[i]), MaxPositions))

(* C3: the reported bcr_win_count equals the count of a reference scan     *)
(* that takes BCR from the table and GSR as the largest offset i < p with  *)
(* P[i : i+len(suffix)] == suffix.                                         *)
C3_BcrWinsMatchReference ==
    \A i \in 1..Len(data) :
        ReportBcr(data[i]) = RefBcrWins(sequence, patterns[i], 0)

(* C4: a pattern longer than the subject never enters the loop body: at    *)
(* its scan state the loop condition is false with untouched counters, and *)
(* its report is 0, 0 and no positions.                                    *)
C4_LongPatternZeroReport ==
    \A i \in 0..(Len(patterns) - 1) :
        Len(At(patterns, i)) > Len(sequence) =>
            /\ (pc = "scan" /\ k = i) =>
                  /\ ~LoopCond(t, sequence, CurP)
                  /\ t = 0 /\ bcr_count = 0 /\ match_count = 0
                  /\ positions = <<>>
            /\ i < Len(data) => At(data, i) = <<0, 0>>

C4_Witness ==
    /\ pc = "done"
    /\ Len(sequence) >= 1
    /\ Len(At(patterns, 0)) > Len(sequence)
    /\ data = << <<0, 0>> >>

(* C5: there is one report per finished pattern, in input order, and two   *)
(* list entries with the same pattern text have identical reports; both    *)
(* entries look their table up at the index of the last duplicate.         *)
C5_DuplicatesReportAlike ==
    /\ Len(data) = (IF pc = "done" THEN Len(patterns) ELSE k)
    /\ \A a, b \in 1..Len(patterns) :
          patterns[a] = patterns[b] =>
             /\ pat_map[patterns[a]] = pat_map[patterns[b]]
             /\ pat_map[patterns[a]] >= b - 1
             /\ (a <= Len(data) /\ b <= Len(data)) => data[a] = data[b]

C5_Witness ==
    /\ pc = "done"
    /\ patterns[1] = patterns[2]
    /\ pat_map[patterns[1]] = 1
    /\ ReportBcr(data[1]) >= 1
    /\ ReportCount(data[1]) >= 1

(* C6: every table cell (c, j) holds the greatest index i < j with         *)
(* pattern[i] == c, or -1 when there is none; a value other than -1 is     *)
(* less than j.                                                            *)
C6_TableHoldsGreatestPrior ==
    \A i \in 0..(Len(patterns) - 1) :
        \A c \in DOMAIN c_map :
            \A j \in 0..(Len(At(patterns, i)) - 1) :
                LET v == Cell(At(preprocessing, i), c_map[c], j)
                IN  /\ v = GreatestBefore(At(patterns, i), c, j)
                    /\ v # NoOccurrence => (0 <= v /\ v < j)

\* a cell whose value overwrote an earlier occurrence of the character
C6_Witness ==
    \E c \in DOMAIN c_map :
        \E j \in 0..(Len(At(patterns, 0)) - 1) :
            /\ Cell(At(preprocessing, 0), c_map[c], j) >= 1
            /\ At(At(patterns, 0), 0) = c

(* C7: at every mismatch GSR returns 1 when no offset i < p has            *)
(* P[i : i+len(suffix)] == suffix, and p minus the largest such offset     *)
(* otherwise.                                                              *)
C7_GSRIsLargestOffset ==
    Mismatch =>
        GSR(t, CurCompare, pat_map[CurP]) = RefGSR(sequence, CurP, t, CurCompare)

(* C8: every shift BCR and GSR return during a scan is at least 1, every   *)
(* iteration of the scan loop moves the cursor forward (by 1 after a       *)
(* match, by s1 or max(s1, s2) after a mismatch), and the scan reaches     *)
(* DONE.                                                                   *)
C8_ShiftsPositive ==
    Mismatch =>
        /\ CurS1 >= 1
        /\ ~InLeftHalf(CurCompare, CurP) => CurS2 >= 1

C8_CursorStep ==
    (Scanning /\ pc' = "scan" /\ k' = k) =>
        /\ t' > t
        /\ CurCompare = -1 => t' = t + 1
        /\ (Mismatch /\ InLeftHalf(CurCompare, CurP)) => t' = t + CurS1
        /\ (Mismatch /\ ~InLeftHalf(CurCompare, CurP)) =>
               t' = t + Max(CurS1, CurS2)

C9_MatchFrame ==
    (Scanning /\ CurCompare = -1) =>
        /\ match_count' = match_count + 1
        /\ t' = t + 1
        /\ positions' = (IF Len(positions) < 10 THEN Append(positions, t)
                         ELSE positions)
        /\ bcr_count' = bcr_count

C9_PositionsShape ==
    /\ Len(positions) <= 10
    /\ \A i, j \in 1..Len(positions) : i < j => positions[i] < positions[j]

C9_MatchStepFrame == [][C9_MatchFrame]_vars /\ []C9_PositionsShape

C9_Witness ==
    /\ match_count >= 11
    /\ Len(positions) = 10
    /\ bcr_count >= 1

(* C10: at a mismatch the Bad-Character shift s1 skips no occurrence of    *)
(* the pattern (none at an offset k with t < k < t + s1), and a step that  *)
(* does pass over an occurrence is a mismatch step that applied a          *)
(* Good-Suffix shift s2 > s1.                                              *)
C10_BCRSkipsNothing ==
    Mismatch =>
        \A kk \in (t + 1)..(t + CurS1 - 1) : ~Occurs(sequence, CurP, kk)

C10_SkipOnlyByGSR ==
    (Scanning /\ pc' = "scan" /\ k' = k) =>
        \A kk \in (t + 1)..(t' - 1) :
            Occurs(sequence, CurP, kk) =>
                /\ Mismatch
                /\ ~InLeftHalf(CurCompare, CurP)
                /\ CurS2 > CurS1

C10_BCRIsSafe == []C10_BCRSkipsNothing /\ [][C10_SkipOnlyByGSR]_vars

\* a mismatch where the Good-Suffix shift is about to pass over an
\* occurrence that the Bad-Character shift would have kept
C10_Witness ==
    /\ Mismatch
    /\ ~InLeftHalf(CurCompare, CurP)
    /\ CurS2 > CurS1
    /\ \E kk \in (t + CurS1)..(t + CurS2 - 1) : Occurs(sequence, CurP, kk)

===========================================================================
